---------------------------- MODULE Spec2Model ----------------------------
(***************************************************************************)
(* Model of option_trading_app1.py: one run of the Streamlit script from   *)
(* the sidebar inputs to the payoff diagram, and the pricing function      *)
(* black_scholes on its own.                                               *)
(*                                                                         *)
(* Floating-point values are modelled as tagged records: a finite value    *)
(* is a decimal fixed-point integer with Scale units per 1.0; the IEEE     *)
(* specials nan, +inf, -inf and -0.0 and Python's None have tags of their  *)
(* own.  numpy arithmetic on float64 scalars never raises for a division   *)
(* by zero or an invalid operand (it warns and yields inf or nan); only an *)
(* operand of the wrong type (None) raises.                                *)
(***************************************************************************)
EXTENDS Integers, Sequences, FiniteSets, TLC

(***************************************************************************)
(* Bounds of the model.                                                    *)
(***************************************************************************)
Scale == 10^3

MaxPrice == 150

MaxDays == 365

MaxVolPct == 20

ParityTol == 2

MaxRows == 2

(***************************************************************************)
(* Program constants.                                                      *)
(***************************************************************************)
sampleCount == 100

DaysPerYear == 365

(***************************************************************************)
(* float64 values.                                                         *)
(***************************************************************************)
Fin(n) == [k |-> "fin", v |-> n]

NaN == [k |-> "nan", v |-> 0]

PInf == [k |-> "inf", v |-> 0]

NInf == [k |-> "ninf", v |-> 0]

NZero == [k |-> "nzero", v |-> 0]

None == [k |-> "none", v |-> 0]

IsNum(x) == x.k \in {"fin", "nzero"}

IsZero(x) == IsNum(x) /\ x.v = 0

\* sign bit of a non-nan value: -1 or 1
SignOf(x) == IF x.k \in {"ninf", "nzero"} \/ (x.k = "fin" /\ x.v < 0) THEN -1 ELSE 1

Mk(s, mag) == IF mag = 0 THEN (IF s < 0 THEN NZero ELSE Fin(0)) ELSE Fin(s * mag)

Abs(n) == IF n < 0 THEN -n ELSE n

\* integer quotient rounded to nearest, ties away from zero
DivR(n, d) ==
    LET s == IF (n < 0) # (d < 0) THEN -1 ELSE 1
    IN  s * ((2 * Abs(n) + Abs(d)) \div (2 * Abs(d)))

FNeg(x) ==
    CASE x.k = "nan" -> NaN
      [] x.k = "inf" -> NInf
      [] x.k = "ninf" -> PInf
      [] OTHER -> Mk(-SignOf(x), Abs(x.v))

FAdd(a, b) ==
    CASE a.k = "nan" \/ b.k = "nan" -> NaN
      [] a.k = "inf" -> IF b.k = "ninf" THEN NaN ELSE PInf
      [] a.k = "ninf" -> IF b.k = "inf" THEN NaN ELSE NInf
      [] b.k \in {"inf", "ninf"} -> b
      [] OTHER -> IF a.k = "nzero" /\ b.k = "nzero" THEN NZero ELSE Fin(a.v + b.v)

FSub(a, b) == FAdd(a, FNeg(b))

FMul(a, b) ==
    CASE a.k = "nan" \/ b.k = "nan" -> NaN
      [] IsNum(a) /\ IsNum(b) -> Mk(SignOf(a) * SignOf(b), Abs(DivR(a.v * b.v, Scale)))
      [] IsZero(a) \/ IsZero(b) -> NaN
      [] OTHER -> IF SignOf(a) * SignOf(b) < 0 THEN NInf ELSE PInf

FDiv(a, b) ==
    CASE a.k = "nan" \/ b.k = "nan" -> NaN
      [] ~IsNum(a) /\ ~IsNum(b) -> NaN
      [] ~IsNum(a) -> IF SignOf(a) * SignOf(b) < 0 THEN NInf ELSE PInf
      [] ~IsNum(b) -> Mk(SignOf(a) * SignOf(b), 0)
      [] IsZero(b) -> IF IsZero(a) THEN NaN
                      ELSE IF SignOf(a) * SignOf(b) < 0 THEN NInf ELSE PInf
      [] OTHER -> Mk(SignOf(a) * SignOf(b), Abs(DivR(a.v * Scale, b.v)))

\* a < b as numpy compares: false as soon as one side is nan
FLess(a, b) ==
    CASE a.k = "nan" \/ b.k = "nan" -> FALSE
      [] a.k = "inf" \/ b.k = "ninf" -> FALSE
      [] a.k = "ninf" \/ b.k = "inf" -> TRUE
      [] OTHER -> a.v < b.v

\* np.maximum propagates nan
FMax(a, b) == IF a.k = "nan" \/ b.k = "nan" THEN NaN ELSE IF FLess(a, b) THEN b ELSE a

(***************************************************************************)
(* Library functions of numpy and scipy on finite fixed-point values.      *)
(***************************************************************************)
LN2 == DivR(693147 * Scale, 10^6)

\* largest k with k*k <= n, by bisection on lo..hi
RECURSIVE SqrtBetween(_, _, _)
SqrtBetween(n, lo, hi) ==
    IF lo >= hi THEN lo
    ELSE LET mid == (lo + hi + 1) \div 2
         IN  IF mid * mid <= n THEN SqrtBetween(n, mid, hi)
             ELSE SqrtBetween(n, lo, mid - 1)

\* sqrt of a fixed-point value v >= 0
Sqrt(v) == SqrtBetween(v * Scale, 0, IF v * Scale < 46000 THEN v * Scale ELSE 46000)

\* ln of a fixed-point value in [1, 2): 2*atanh((v-1)/(v+1)), four terms
LnSeries(v) ==
    LET y == DivR((v - Scale) * Scale, v + Scale)
        y2 == DivR(y * y, Scale)
        y3 == DivR(y * y2, Scale)
        y5 == DivR(y3 * y2, Scale)
        y7 == DivR(y5 * y2, Scale)
    IN  2 * (y + DivR(y3, 3) + DivR(y5, 5) + DivR(y7, 7))

\* ln of a fixed-point value v > 0
RECURSIVE Ln(_)
Ln(v) ==
    IF v >= 2 * Scale THEN LN2 + Ln(DivR(v, 2))
    ELSE IF v < Scale THEN Ln(2 * v) - LN2
    ELSE LnSeries(v)

\* e^x for a fixed-point x with |x| <= 1/2: Taylor series, five terms
ExpSeries(x) ==
    LET x2 == DivR(x * x, Scale)
        x3 == DivR(x2 * x, Scale)
        x4 == DivR(x3 * x, Scale)
    IN  Scale + x + DivR(x2, 2) + DivR(x3, 6) + DivR(x4, 24)

RECURSIVE Exp(_)
Exp(x) ==
    IF 2 * Abs(x) > Scale
    THEN LET h == Exp(DivR(x, 2)) IN DivR(h * h, Scale)
    ELSE ExpSeries(x)

\* standard normal CDF at 0.0, 0.1, ..., 3.3, in thousandths
CdfTable ==
    << 500, 540, 579, 618, 655, 691, 726, 758, 788, 816,
       841, 864, 885, 903, 919, 933, 945, 955, 964, 971,
       977, 982, 986, 989, 992, 994, 995, 997, 997, 998,
       999, 999, 999, 1000 >>

\* standard normal CDF of a fixed-point x: table lookup with linear
\* interpolation, symmetric about 0
RECURSIVE Cdf(_)
Cdf(x) ==
    IF x < 0 THEN Scale - Cdf(-x)
    ELSE LET step == Scale \div 10
             i == x \div step
         IN  IF i + 2 > Len(CdfTable) THEN Scale
             ELSE CdfTable[i + 1]
                  + DivR((CdfTable[i + 2] - CdfTable[i + 1]) * (x % step), step)

\* np.log
FLog(x) ==
    CASE x.k = "nan" -> NaN
      [] x.k = "inf" -> PInf
      [] IsZero(x) -> NInf
      [] SignOf(x) < 0 -> NaN
      [] OTHER -> Mk(IF Ln(x.v) < 0 THEN -1 ELSE 1, Abs(Ln(x.v)))

\* np.sqrt
FSqrt(x) ==
    CASE x.k = "nan" -> NaN
      [] x.k = "inf" -> PInf
      [] IsZero(x) -> x
      [] SignOf(x) < 0 -> NaN
      [] OTHER -> Fin(Sqrt(x.v))

\* np.exp
FExp(x) ==
    CASE x.k = "nan" -> NaN
      [] x.k = "inf" -> PInf
      [] x.k = "ninf" -> Fin(0)
      [] OTHER -> Fin(Exp(x.v))

\* scipy.stats.norm.cdf
FCdf(x) ==
    CASE x.k = "nan" -> NaN
      [] x.k = "inf" -> Fin(Scale)
      [] x.k = "ninf" -> Fin(0)
      [] OTHER -> Fin(Cdf(x.v))

(***************************************************************************)
(* black_scholes (lines 60-80).                                            *)
(***************************************************************************)
Half == Fin(Scale \div 2)

\* an operand that is None makes the arithmetic raise TypeError
RaisesTypeError(S, K, T, r, sigma) == \E a \in {S, K, T, r, sigma} : a.k = "none"

\* sigma * np.sqrt(T)
SigmaSqrtT(T, sigma) == FMul(sigma, FSqrt(T))

bs_d1(S, K, T, r, sigma) ==
    FDiv(FAdd(FLog(FDiv(S, K)), FMul(FAdd(r, FMul(Half, FMul(sigma, sigma))), T)),
         SigmaSqrtT(T, sigma))

bs_d2(S, K, T, r, sigma) == FSub(bs_d1(S, K, T, r, sigma), SigmaSqrtT(T, sigma))

\* K * np.exp(-r * T)
Discounted(K, T, r) == FMul(K, FExp(FMul(FNeg(r), T)))

bs_call(S, K, T, r, sigma) ==
    FSub(FMul(S, FCdf(bs_d1(S, K, T, r, sigma))),
         FMul(Discounted(K, T, r), FCdf(bs_d2(S, K, T, r, sigma))))

bs_put_swapped(S, K, T, r, sigma) ==
    FSub(FMul(Discounted(K, T, r), FCdf(bs_d2(S, K, T, r, sigma))),
         FMul(S, FCdf(bs_d1(S, K, T, r, sigma))))

bs_put(S, K, T, r, sigma) ==
    FSub(FMul(Discounted(K, T, r), FCdf(FNeg(bs_d2(S, K, T, r, sigma)))),
         FMul(S, FCdf(FNeg(bs_d1(S, K, T, r, sigma)))))

\* The outcome of one call: what the caller gets ("return" with a value, or
\* "raise"), and whether the function itself called st.error.
black_scholes(S, K, T, r, sigma, option_type) ==
    IF RaisesTypeError(S, K, T, r, sigma)
    THEN [outcome |-> "return", value |-> NaN, message |-> TRUE]
    ELSE [outcome |-> "return",
          value |-> IF option_type = "call" THEN bs_call(S, K, T, r, sigma)
                    ELSE bs_put(S, K, T, r, sigma),
          message |-> FALSE]

(***************************************************************************)
(* np.linspace(start, stop, num) with num > 1 and endpoint=True.           *)
(***************************************************************************)
\* endpoint=False: num samples of the half-open interval
linspace_no_endpoint(start, stop, num) ==
    LET step == FDiv(FSub(stop, start), Fin(num * Scale))
    IN  [j \in 1..num |-> FAdd(FMul(Fin((j - 1) * Scale), step), start)]

linspace(start, stop, num) ==
    LET div == Fin((num - 1) * Scale)
        delta == FSub(stop, start)
        step == FDiv(delta, div)
        y(i) == IF IsZero(step) THEN FMul(FDiv(Fin(i * Scale), div), delta)
                ELSE FMul(Fin(i * Scale), step)
    IN  [j \in 1..num |-> IF j = num THEN stop ELSE FAdd(y(j - 1), start)]

(***************************************************************************)
(* Inputs of a run.  Prices, strikes, rates and volatilities are small     *)
(* sets; days are counted from the day of the run.                         *)
(***************************************************************************)
\* whole dollars
Prices == {MaxPrice - 50, MaxPrice}

Strikes == {MaxPrice - 100, MaxPrice - 50}

\* tables the provider can return for one side: sets of strikes, {} is an
\* empty DataFrame
Tables == {{}} \cup {{k \in Strikes : k <= m} : m \in Strikes}

\* the widget returns a percentage, any float (no min_value is set)
RatePcts == {0, 15}

VolPcts == {-10 * MaxVolPct, 0, 10 * MaxVolPct}

ExpirationDays == {0, 1, MaxDays \div 5, MaxDays}

ExpirationInputs ==
    {[kind |-> "empty", day |-> 0], [kind |-> "malformed", day |-> 0]}
    \cup {[kind |-> "date", day |-> d] : d \in ExpirationDays}

\* number_input(...) / 100, the percentage given in tenths of a percent
PctToFraction(tenths) == FDiv(Fin(tenths * (Scale \div 10)), Fin(100 * Scale))

\* (expiration_date - today).days: expiration_date is midnight of its day,
\* today is now; timedelta.days is the floor of the difference in days
DeltaDays(day, atMidnight) == IF atMidnight THEN day ELSE day - 1

\* line 148: days / 365
TimeToExpiration(day, atMidnight) ==
    LET d == DeltaDays(day, atMidnight)
    IN  Mk(IF d < 0 THEN -1 ELSE 1, Abs(DivR(d * Scale, DaysPerYear)))

\* the value substituted at line 151
ClampValue == Fin(Scale \div 100)

\* lines 149-151
ClampT(t) == IF ~FLess(Fin(0), t) THEN ClampValue ELSE t

\* sorted(options['Strike'].unique())
RECURSIVE SortedStrikes(_)
SortedStrikes(tbl) ==
    IF tbl = {} THEN << >>
    ELSE LET m == CHOOSE x \in tbl : \A y \in tbl : x <= y
         IN  << m >> \o SortedStrikes(tbl \ {m})

PayoffSwapped(grid, K, price, option_type) ==
    [j \in DOMAIN grid |->
        IF option_type = "call" THEN FSub(FMax(FSub(K, grid[j]), Fin(0)), price)
        ELSE FSub(FMax(FSub(grid[j], K), Fin(0)), price)]

\* lines 161-164
Payoff(grid, K, price, option_type) ==
    [j \in DOMAIN grid |->
        IF option_type = "call" THEN FSub(FMax(FSub(grid[j], K), Fin(0)), price)
        ELSE FSub(FMax(FSub(K, grid[j]), Fin(0)), price)]

(***************************************************************************)
(* State of a run.  T_years and S_grid are the script's globals T and S.   *)
(***************************************************************************)
VARIABLES pc, ticker, api_key, stock_data, current_price, expirations,
          option_calls, option_puts, option_type, strike, risk_free_rate,
          volatility, atMidnight, T_years, bs_result, bs_price, S_grid, payoff,
          events

vars == << pc, ticker, api_key, stock_data, current_price, expirations,
           option_calls, option_puts, option_type, strike, risk_free_rate,
           volatility, atMidnight, T_years, bs_result, bs_price, S_grid, payoff,
           events >>

Unset == [k |-> "unset", v |-> 0]

NoResult == [outcome |-> "none", value |-> Unset, message |-> FALSE]

Init ==
    /\ pc = "inputs"
    /\ ticker = ""
    /\ api_key = ""
    /\ stock_data = << >>
    /\ current_price = Unset
    /\ expirations = [kind |-> "empty", day |-> 0]
    /\ option_calls = {}
    /\ option_puts = {}
    /\ option_type = ""
    /\ strike = Unset
    /\ risk_free_rate = Unset
    /\ volatility = Unset
    /\ atMidnight = FALSE
    /\ T_years = Unset
    /\ bs_result = NoResult
    /\ bs_price = Unset
    /\ S_grid = << >>
    /\ payoff = << >>
    /\ events = << >>

(***************************************************************************)
(* Provider responses and the two fetch functions.                         *)
(***************************************************************************)
Dollars(n) == Fin(n * Scale)

RowSeqs(n) == UNION {[1..m -> Prices] : m \in 0..n}

\* what quandl.get does for the stock request: raise, or a frame of
\* Adj_Close rows (possibly none)
StockResponses ==
    {[raises |-> TRUE, rows |-> << >>]}
    \cup {[raises |-> FALSE, rows |-> rs] : rs \in RowSeqs(MaxRows)}

ChainResponses ==
    {[raises |-> TRUE, table |-> {}]} \cup {[raises |-> FALSE, table |-> t] : t \in Tables}

\* lines 29-41
get_stock_data(resp) ==
    IF resp.raises
    THEN [data |-> << >>, ev |-> << "req_stock", "err_stock" >>]
    ELSE [data |-> resp.rows, ev |-> << "req_stock" >>]

\* lines 43-58: the puts request is issued only after the calls request
\* returned
get_option_chain(respCalls, respPuts) ==
    IF respCalls.raises
    THEN [calls |-> {}, puts |-> {}, ev |-> << "req_calls", "err_chain" >>]
    ELSE IF respPuts.raises
    THEN [calls |-> {}, puts |-> {}, ev |-> << "req_calls", "req_puts", "err_chain" >>]
    ELSE [calls |-> respCalls.table, puts |-> respPuts.table,
          ev |-> << "req_calls", "req_puts" >>]

(***************************************************************************)
(* The main flow, lines 83-180.                                            *)
(***************************************************************************)
\* lines 83-86 and 179-180
GatherInputs ==
    /\ pc = "inputs"
    /\ \E t \in {"", "AAPL"}, key \in {"", "KEY"} :
        /\ ticker' = t
        /\ api_key' = key
        /\ IF t # "" /\ key # ""
           THEN pc' = "fetch_stock" /\ events' = events
           ELSE pc' = "done" /\ events' = Append(events, "info_missing_input")
    /\ UNCHANGED << stock_data, current_price, expirations, option_calls, option_puts,
                    option_type, strike, risk_free_rate, volatility, atMidnight,
                    T_years, bs_result, bs_price, S_grid, payoff >>

\* lines 91-98
FetchStock ==
    /\ pc = "fetch_stock"
    /\ \E resp \in StockResponses :
        LET got == get_stock_data(resp)
        IN  /\ stock_data' = got.data
            /\ IF got.data # << >>
               THEN /\ current_price' = Dollars(got.data[Len(got.data)])
                    /\ events' = events \o got.ev \o << "ret_stock", "show_price" >>
               ELSE /\ current_price' = None
                    /\ events' = events \o got.ev \o << "ret_stock" >>
    /\ pc' = "input_expiration"
    /\ UNCHANGED << ticker, api_key, expirations, option_calls, option_puts,
                    option_type, strike, risk_free_rate, volatility, atMidnight,
                    T_years, bs_result, bs_price, S_grid, payoff >>

\* lines 102-104
InputExpiration ==
    /\ pc = "input_expiration"
    /\ \E e \in ExpirationInputs :
        /\ expirations' = e
        /\ pc' = IF e.kind # "empty" THEN "fetch_chain" ELSE "done"
    /\ UNCHANGED << ticker, api_key, stock_data, current_price, option_calls,
                    option_puts, option_type, strike, risk_free_rate, volatility,
                    atMidnight, T_years, bs_result, bs_price, S_grid, payoff, events >>

\* the guard of line 108 with "or" for "and"
FetchChainEitherSide ==
    /\ pc = "fetch_chain"
    /\ \E rc \in ChainResponses, rp \in ChainResponses :
        LET got == get_option_chain(rc, rp)
        IN  /\ option_calls' = got.calls
            /\ option_puts' = got.puts
            /\ IF got.calls # {} \/ got.puts # {}
               THEN /\ pc' = "select_option"
                    /\ events' = events \o got.ev \o << "ret_chain", "show_chain" >>
               ELSE /\ pc' = "done"
                    /\ events' = events \o got.ev \o << "ret_chain", "warn_no_chain" >>
    /\ UNCHANGED << ticker, api_key, stock_data, current_price, expirations,
                    option_type, strike, risk_free_rate, volatility, atMidnight,
                    T_years, bs_result, bs_price, S_grid, payoff >>

\* lines 106-117 and 177-178
FetchChain ==
    /\ pc = "fetch_chain"
    /\ \E rc \in ChainResponses, rp \in ChainResponses :
        LET got == get_option_chain(rc, rp)
        IN  /\ option_calls' = got.calls
            /\ option_puts' = got.puts
            /\ IF got.calls # {} /\ got.puts # {}
               THEN /\ pc' = "select_option"
                    /\ events' = events \o got.ev \o << "ret_chain", "show_chain" >>
               ELSE /\ pc' = "done"
                    /\ events' = events \o got.ev \o << "ret_chain", "warn_no_chain" >>
    /\ UNCHANGED << ticker, api_key, stock_data, current_price, expirations,
                    option_type, strike, risk_free_rate, volatility, atMidnight,
                    T_years, bs_result, bs_price, S_grid, payoff >>

\* lines 121-140 and 175-176
SelectOption ==
    /\ pc = "select_option"
    /\ \E ot \in {"call", "put"} :
        LET options == IF ot = "call" THEN option_calls ELSE option_puts
        IN  /\ option_type' = ot
            /\ IF options # {}
               THEN /\ \E j \in 1..Cardinality(options) :
                          strike' = Dollars(SortedStrikes(options)[j])
                    /\ events' = Append(events, "show_option")
                    /\ pc' = "params"
               ELSE /\ strike' = strike
                    /\ events' = Append(events, "warn_no_strike")
                    /\ pc' = "done"
    /\ UNCHANGED << ticker, api_key, stock_data, current_price, expirations,
                    option_calls, option_puts, risk_free_rate, volatility, atMidnight,
                    T_years, bs_result, bs_price, S_grid, payoff >>

\* lines 144-148: datetime.strptime raises ValueError on a malformed date
InputParams ==
    /\ pc = "params"
    /\ \E rp \in RatePcts, vp \in VolPcts, mid \in BOOLEAN :
        /\ risk_free_rate' = PctToFraction(rp)
        /\ volatility' = PctToFraction(vp)
        /\ atMidnight' = mid
        /\ IF expirations.kind = "malformed"
           THEN /\ pc' = "crashed"
                /\ events' = Append(events, "raise_ValueError")
                /\ T_years' = T_years
           ELSE /\ pc' = "check_T"
                /\ events' = events
                /\ T_years' = TimeToExpiration(expirations.day, mid)
    /\ UNCHANGED << ticker, api_key, stock_data, current_price, expirations,
                    option_calls, option_puts, option_type, strike, bs_result,
                    bs_price, S_grid, payoff >>

\* lines 149-151
CheckT ==
    /\ pc = "check_T"
    /\ T_years' = ClampT(T_years)
    /\ events' = IF ~FLess(Fin(0), T_years) THEN Append(events, "err_expiration")
                 ELSE events
    /\ pc' = "price"
    /\ UNCHANGED << ticker, api_key, stock_data, current_price, expirations,
                    option_calls, option_puts, option_type, strike, risk_free_rate,
                    volatility, atMidnight, bs_result, bs_price, S_grid, payoff >>

\* lines 154-155
Price ==
    /\ pc = "price"
    /\ LET res == black_scholes(current_price, strike, T_years, risk_free_rate,
                                volatility, option_type)
       IN  /\ bs_result' = res
           /\ IF res.outcome = "raise"
              THEN /\ pc' = "crashed"
                   /\ bs_price' = bs_price
                   /\ events' = events \o << "call_bs", "raise_bs" >>
              ELSE /\ pc' = "curve"
                   /\ bs_price' = res.value
                   /\ events' = events \o << "call_bs" >>
                                \o (IF res.message THEN << "err_bs" >> ELSE << >>)
                                \o << "ret_bs", "show_bs_price" >>
    /\ UNCHANGED << ticker, api_key, stock_data, current_price, expirations,
                    option_calls, option_puts, option_type, strike, risk_free_rate,
                    volatility, atMidnight, T_years, S_grid, payoff >>

\* lines 160-164: None * 0.5 raises TypeError
Curve ==
    /\ pc = "curve"
    /\ IF current_price = None
       THEN /\ pc' = "crashed"
            /\ events' = Append(events, "raise_TypeError")
            /\ UNCHANGED << S_grid, payoff >>
       ELSE /\ S_grid' = linspace(FMul(current_price, Half),
                                  FMul(current_price, Fin(Scale + Scale \div 2)),
                                  sampleCount)
            /\ payoff' = Payoff(S_grid', strike, bs_price, option_type)
            /\ events' = Append(events, "payoff")
            /\ pc' = "plot"
    /\ UNCHANGED << ticker, api_key, stock_data, current_price, expirations,
                    option_calls, option_puts, option_type, strike, risk_free_rate,
                    volatility, atMidnight, T_years, bs_result, bs_price >>

\* lines 166-174
Plot ==
    /\ pc = "plot"
    /\ events' = Append(events, "show_plot")
    /\ pc' = "done"
    /\ UNCHANGED << ticker, api_key, stock_data, current_price, expirations,
                    option_calls, option_puts, option_type, strike, risk_free_rate,
                    volatility, atMidnight, T_years, bs_result, bs_price, S_grid,
                    payoff >>

Next ==
    \/ GatherInputs
    \/ FetchStock
    \/ InputExpiration
    \/ FetchChain
    \/ SelectOption
    \/ InputParams
    \/ CheckT
    \/ Price
    \/ Curve
    \/ Plot

Spec == Init /\ [][Next]_vars

(***************************************************************************)
(* black_scholes on its own: one call on arguments drawn from sets that    *)
(* include the values the formula is not defined for.  The arguments are   *)
(* numpy float64 scalars (or None), as the main flow passes them.          *)
(***************************************************************************)
BS_S == {None, Dollars(-MaxPrice), Fin(0)} \cup {Dollars(p) : p \in Prices}

BS_K == {Dollars(-MaxPrice), Fin(0)} \cup {Dollars(k) : k \in Strikes}

BS_T == {TimeToExpiration(d, TRUE) : d \in {-1, 0, MaxDays \div 5, MaxDays}}
        \cup {ClampValue}

BS_r == {PctToFraction(p) : p \in RatePcts}

BS_sigma == {PctToFraction(p) : p \in VolPcts \cup {20 * MaxVolPct}}

InitBS ==
    /\ pc = "bs_call"
    /\ current_price \in BS_S
    /\ strike \in BS_K
    /\ T_years \in BS_T
    /\ risk_free_rate \in BS_r
    /\ volatility \in BS_sigma
    /\ option_type \in {"call", "put"}
    /\ ticker = ""
    /\ api_key = ""
    /\ stock_data = << >>
    /\ expirations = [kind |-> "empty", day |-> 0]
    /\ option_calls = {}
    /\ option_puts = {}
    /\ atMidnight = TRUE
    /\ bs_result = NoResult
    /\ bs_price = Unset
    /\ S_grid = << >>
    /\ payoff = << >>
    /\ events = << >>

\* bs_price = black_scholes(S=..., K=..., T=..., r=..., sigma=..., option_type=...)
BSApply ==
    /\ pc = "bs_call"
    /\ LET res == black_scholes(current_price, strike, T_years, risk_free_rate,
                                volatility, option_type)
       IN  /\ bs_result' = res
           /\ bs_price' = IF res.outcome = "raise" THEN bs_price ELSE res.value
           /\ events' = events \o << "call_bs" >>
                        \o (IF res.message THEN << "err_bs" >> ELSE << >>)
                        \o (IF res.outcome = "raise" THEN << "raise_bs" >>
                            ELSE << "ret_bs" >>)
    /\ pc' = "bs_done"
    /\ UNCHANGED << ticker, api_key, stock_data, current_price, expirations,
                    option_calls, option_puts, option_type, strike, risk_free_rate,
                    volatility, atMidnight, T_years, S_grid, payoff >>

NextBS == BSApply

SpecBS == InitBS /\ [][NextBS]_vars

(***************************************************************************)
(* Properties.                                                             *)
(***************************************************************************)
Has(e) == \E i \in 1..Len(events) : events[i] = e

Count(e) == Cardinality({i \in 1..Len(events) : events[i] = e})

\* every occurrence of b is preceded by an occurrence of a
Precedes(a, b) ==
    \A j \in 1..Len(events) : events[j] = b => \E i \in 1..(j - 1) : events[i] = a

Positive(x) == x.k = "inf" \/ (x.k = "fin" /\ x.v > 0)

NonPositive(x) == x.k \in {"ninf", "nzero"} \/ (x.k = "fin" /\ x.v <= 0)

Called == bs_result.outcome # "none"

\* T as line 148 computed it, before lines 149-151
ComputedT == TimeToExpiration(expirations.day, atMidnight)

\* C1: when the time-to-expiration computed from the expiration date is
\* non-positive, the pricing call fails with a domain error that reaches the
\* caller, no price is produced, and T is not replaced by a fallback value.
\* (Stated for runs whose other pricing arguments are valid.)
C1_NonPositiveTRaises ==
    (Called /\ Positive(current_price) /\ Positive(volatility) /\ NonPositive(ComputedT))
        => /\ bs_result.outcome = "raise"
           /\ bs_price = Unset
           /\ T_years = ComputedT

\* C2: a call of black_scholes with sigma <= 0, S <= 0 or K <= 0 is rejected
\* with a domain error and returns no numeric price, finite or not.
C2_InvalidInputRejected ==
    (pc = "bs_done"
     /\ (NonPositive(volatility) \/ NonPositive(current_price) \/ NonPositive(strike)))
        => /\ bs_result.outcome = "raise"
           /\ bs_price = Unset

\* C3: an error arising inside black_scholes propagates to the caller: the
\* call does not return a substitute value and the function displays no
\* message itself.
C3_ErrorsPropagate ==
    (Called /\ RaisesTypeError(current_price, strike, T_years, risk_free_rate, volatility))
        => /\ bs_result.outcome = "raise"
           /\ ~bs_result.message
           /\ ~Has("err_bs")
           /\ bs_price = Unset

ExpectedProfit(sample, K, premium, ot) ==
    IF premium.k = "nan" THEN NaN
    ELSE LET intrinsic == IF ot = "call" THEN sample.v - K.v ELSE K.v - sample.v
         IN  Fin((IF intrinsic > 0 THEN intrinsic ELSE 0) - premium.v)

\* C5: each point of the payoff curve is max(S' - K, 0) - price for a call
\* and max(K - S', 0) - price for a put, with K the selected strike and price
\* the value black_scholes just returned for the selected option type; no
\* point is below -price.
C5_PayoffFormula ==
    Has("payoff")
        => /\ bs_price = black_scholes(current_price, strike, T_years, risk_free_rate,
                                       volatility, option_type).value
           /\ bs_price.k \in {"fin", "nan"}
           /\ \A j \in 1..Len(S_grid) :
                /\ payoff[j] = ExpectedProfit(S_grid[j], strike, bs_price, option_type)
                /\ ~FLess(payoff[j], FNeg(bs_price))

C5_Witness ==
    /\ pc = "plot"
    /\ option_type = "put"
    /\ bs_price.k = "fin" /\ bs_price.v > 0
    /\ \E j \in 1..Len(S_grid) : FLess(S_grid[j], strike)
    /\ \E j \in 1..Len(S_grid) : FLess(strike, S_grid[j])

\* C6: black_scholes is called only after the stock-data fetch and the
\* option-chain fetch have returned, and only with ticker, API key and
\* expiration non-empty and both tables non-empty; the provider is asked only
\* after the inputs are gathered; the payoff curve is computed only after the
\* price, and each result is rendered only after it is computed.
C6_StepOrder ==
    /\ Has("req_stock") => (ticker # "" /\ api_key # "")
    /\ Precedes("ret_stock", "req_calls")
    /\ Precedes("ret_stock", "call_bs")
    /\ Precedes("ret_chain", "call_bs")
    /\ Has("call_bs") => /\ ticker # "" /\ api_key # ""
                         /\ expirations.kind # "empty"
                         /\ option_calls # {} /\ option_puts # {}
    /\ Precedes("ret_bs", "payoff")
    /\ Precedes("ret_bs", "show_bs_price")
    /\ Precedes("payoff", "show_plot")

C6_Witness == pc = "done" /\ Has("show_plot")

\* C7: each provider request is issued at most once per run and never
\* retried; when a request raises, the error is reported, the function
\* returns empty tables (both sides for get_option_chain) instead of
\* aborting the run, and the run goes on without pricing.
C7_SingleFetchNoPricing ==
    /\ Count("req_stock") <= 1 /\ Count("req_calls") <= 1 /\ Count("req_puts") <= 1
    /\ Has("err_stock") => (stock_data = << >> /\ Has("ret_stock"))
    /\ Has("err_chain") => (option_calls = {} /\ option_puts = {} /\ Has("ret_chain"))
    /\ (Has("err_stock") \/ Has("err_chain")) => ~Has("call_bs")

\* What holds of the fetches: one request each, a failure is reported and
\* answered with empty tables, and a failed option-chain fetch ends the run
\* normally without pricing.
FetchOnceLemma ==
    /\ Count("req_stock") <= 1 /\ Count("req_calls") <= 1 /\ Count("req_puts") <= 1
    /\ Has("err_stock") => (stock_data = << >> /\ Has("ret_stock"))
    /\ Has("err_chain") => /\ option_calls = {} /\ option_puts = {}
                            /\ Has("ret_chain")
                            /\ ~Has("call_bs")
                            /\ pc = "done"

\* C8: for valid arguments (S, K, T, sigma > 0) the call price minus the put
\* price equals S - K*exp(-r*T), within the rounding of the arithmetic.
C8_PutCallParity ==
    (pc = "bs_done" /\ Positive(current_price) /\ Positive(strike) /\ Positive(T_years)
     /\ Positive(volatility))
        => LET c == bs_call(current_price, strike, T_years, risk_free_rate, volatility)
               p == bs_put(current_price, strike, T_years, risk_free_rate, volatility)
               rhs == FSub(current_price, Discounted(strike, T_years, risk_free_rate))
           IN  /\ c.k = "fin" /\ p.k = "fin" /\ rhs.k = "fin"
               /\ Abs((c.v - p.v) - rhs.v) <= ParityTol
               /\ bs_price = IF option_type = "call" THEN c ELSE p

C8_Witness ==
    /\ pc = "bs_done"
    /\ option_type = "put"
    /\ Positive(current_price) /\ Positive(strike) /\ Positive(T_years)
    /\ Positive(volatility)
    /\ Positive(risk_free_rate)
    /\ Positive(bs_price)

\* C9: whenever black_scholes is called from the main flow, the stock-data
\* fetch returned a non-empty table and current_price is a number, not None.
C9_PriceDefinedAtPricing ==
    Has("call_bs") => (stock_data # << >> /\ current_price.k = "fin")

\* C10: when the computed time-to-expiration is non-positive the main flow
\* substitutes T = 0.01 and the run still computes and displays a price and
\* a payoff curve; T > 0 at every call of black_scholes.
C10_ClampThenPriceAndCurve ==
    /\ Has("call_bs") => Positive(T_years)
    /\ (T_years # Unset /\ pc # "check_T" /\ NonPositive(ComputedT))
          => /\ T_years = ClampValue
             /\ Has("err_expiration")
             /\ pc \in {"done", "crashed"} => (Has("show_bs_price") /\ Has("show_plot"))

\* What holds of the T check: a non-positive T is reported and replaced by
\* 0.01, T > 0 at every call of black_scholes, and with a numeric
\* current_price the run ends with the price and the payoff diagram shown.
ClampLemma ==
    /\ Has("call_bs") => Positive(T_years)
    /\ (T_years # Unset /\ pc # "check_T" /\ NonPositive(ComputedT))
          => /\ T_years = ClampValue
             /\ Has("err_expiration")
             /\ pc # "price" => Has("show_bs_price")
             /\ current_price # None => pc # "crashed"
             /\ pc = "done" => Has("show_plot")

=============================================================================
